---- MODULE Spec2Model ----
(***************************************************************************)
(* Model of GTG/core/requester.py: the Requester view over a datastore.    *)
(* The datastore, its tag store and the task objects are collaborators of  *)
(* the Requester; their state is the state of the model, and the Requester *)
(* selectors are operators evaluated over that state.                      *)
(***************************************************************************)
EXTENDS Integers, Sequences, FiniteSets, TLC

\* Bounds of the model.
MaxTasks == 3
MaxTags == 2
MaxSteps == 5
MaxRequesters == 2
MaxViewSteps == 2

VARIABLES
    tasks,      \* ds.get_task: task id -> task object, or None when the lookup returns nothing
    all_tasks,  \* ds.all_tasks(): the identifiers the store iterates over, in iteration order
    tagstore,   \* ds.get_tagstore(): the tags of the tag store, in iteration order
    nonwork,    \* the tags whose attribute "nonworkview" is "True"
    steps,      \* number of store mutations so far
    reqs,       \* the Requester instances: requester -> its attributes, or None before construction
    last        \* the last selector call and what it returned, NoCall after a store mutation

vars == <<tasks, all_tasks, tagstore, nonwork, steps, reqs, last>>

store == <<tasks, all_tasks, tagstore, nonwork>>

Requesters == 1..MaxRequesters

TIDs == 1..MaxTasks
Tags == 1..MaxTags

Statuses == {"Active", "Done", "Dismiss", "Deleted", "Note"}

\* Python's None, as returned by a failed lookup.
None == [absent |-> TRUE]

\* An exception escaping from a selector (AttributeError on None).
Raised == [raised |-> TRUE]

\* No selector was called since the store last changed.
NoCall == [nocall |-> TRUE]

\* The datastore every Requester is constructed on.
DS == "datastore"

\* Requester.__init__: the instance holds a reference to its datastore.
Requester__init__(datastore) == [ds |-> datastore]

\* A selector that returns the list l.
Returned(l) == [raised |-> FALSE, list |-> l]

----------------------------------------------------------------------------
\* Helpers on sequences (Python lists).

Range(s) == {s[i] : i \in 1..Len(s)}

InList(x, s) == \E i \in 1..Len(s) : s[i] = x

Append1(s, x) == IF InList(x, s) THEN s ELSE Append(s, x)

\* for x in xs: if x not in l: l.append(x)
RECURSIVE AddAll(_, _)
AddAll(l, xs) ==
    IF xs = <<>> THEN l ELSE AddAll(Append1(l, Head(xs)), Tail(xs))

\* list.remove(x): removes the first occurrence of x.
RECURSIVE ListRemove(_, _)
ListRemove(s, x) ==
    IF s = <<>> THEN <<>>
    ELSE IF Head(s) = x THEN Tail(s)
    ELSE <<Head(s)>> \o ListRemove(Tail(s), x)

\* All duplicate-free lists over a set.
RECURSIVE ListsOver(_)
ListsOver(S) ==
    {<<>>} \cup UNION {{<<x>> \o l : l \in ListsOver(S \ {x})} : x \in S}

----------------------------------------------------------------------------
\* The task object as the datastore creates it.
NewTaskObject(newtask) ==
    [status |-> "Active", tags |-> <<>>, parents |-> {},
     loaded |-> newtask, started |-> TRUE, workable |-> TRUE]

Init ==
    /\ tasks = [t \in TIDs |-> None]
    /\ all_tasks = <<>>
    /\ tagstore = <<>>
    /\ nonwork = {}
    /\ steps = 0
    /\ reqs = [r \in Requesters |-> IF r = 1 THEN Requester__init__(DS) ELSE None]
    /\ last = NoCall

Exists(tid) == tasks[tid] # None

\* for t in tags: task.add_tag(t.get_name())
RECURSIVE AddTags(_, _)
AddTags(task, tl) ==
    IF tl = <<>> THEN task
    ELSE AddTags([task EXCEPT !.tags = Append1(@, Head(tl))], Tail(tl))

\* The datastore gives a new task the first identifier not in use.
new_tid == CHOOSE k \in TIDs : ~InList(k, all_tasks) /\ \A j \in 1..(k - 1) : InList(j, all_tasks)

\* Requester.new_task(tags=tl, newtask=newtask)
new_task(tl, newtask) ==
    /\ steps < MaxSteps
    /\ Len(all_tasks) < MaxTasks
    /\ LET tid == new_tid IN
       /\ tasks' = [tasks EXCEPT ![tid] = AddTags(NewTaskObject(newtask), tl)]
       /\ all_tasks' = Append(all_tasks, tid)
    /\ steps' = steps + 1
    /\ last' = NoCall
    /\ UNCHANGED <<tagstore, nonwork, reqs>>

\* Requester.delete_task: the lookup of tid returns nothing from now on;
\* the identifier is still iterated until the store drops it.
delete_task(tid) ==
    /\ steps < MaxSteps
    /\ Exists(tid)
    /\ tasks' = [tasks EXCEPT ![tid] = None]
    /\ steps' = steps + 1
    /\ last' = NoCall
    /\ UNCHANGED <<all_tasks, tagstore, nonwork, reqs>>

\* The store drops a deleted identifier and the links to it.
purge_task(tid) ==
    /\ steps < MaxSteps
    /\ InList(tid, all_tasks)
    /\ ~Exists(tid)
    /\ all_tasks' = ListRemove(all_tasks, tid)
    /\ tasks' = [t \in TIDs |->
                   IF tasks[t] = None THEN None
                   ELSE [tasks[t] EXCEPT !.parents = @ \ {tid}]]
    /\ steps' = steps + 1
    /\ last' = NoCall
    /\ UNCHANGED <<tagstore, nonwork, reqs>>

\* Requester.new_tag
new_tag(tag) ==
    /\ steps < MaxSteps
    /\ ~InList(tag, tagstore)
    /\ tagstore' = Append(tagstore, tag)
    /\ steps' = steps + 1
    /\ last' = NoCall
    /\ UNCHANGED <<tasks, all_tasks, nonwork, reqs>>

\* tag.set_attribute("nonworkview", "True")
set_nonworkview(tag) ==
    /\ steps < MaxSteps
    /\ InList(tag, tagstore)
    /\ tag \notin nonwork
    /\ nonwork' = nonwork \cup {tag}
    /\ steps' = steps + 1
    /\ last' = NoCall
    /\ UNCHANGED <<tasks, all_tasks, tagstore, reqs>>

\* A task object of the store changes.
UpdateTask(tid, new) ==
    /\ steps < MaxSteps
    /\ Exists(tid)
    /\ new # tasks[tid]
    /\ tasks' = [tasks EXCEPT ![tid] = new]
    /\ steps' = steps + 1
    /\ last' = NoCall
    /\ UNCHANGED <<all_tasks, tagstore, nonwork, reqs>>

\* task.set_status(s)
set_status(tid, s) == Exists(tid) /\ UpdateTask(tid, [tasks[tid] EXCEPT !.status = s])

\* task.add_tag(tag)
add_tag(tid, tag) ==
    /\ Exists(tid)
    /\ InList(tag, tagstore)
    /\ UpdateTask(tid, [tasks[tid] EXCEPT !.tags = Append1(@, tag)])

\* The parent links of a task change: it becomes a child of the tasks ps.
add_parents(tid, ps) ==
    /\ Exists(tid)
    /\ tid \notin ps
    /\ \A p \in ps : Exists(p)
    /\ UpdateTask(tid, [tasks[tid] EXCEPT !.parents = @ \cup ps])

\* The task's data has finished loading.
set_loaded(tid) == Exists(tid) /\ UpdateTask(tid, [tasks[tid] EXCEPT !.loaded = TRUE])

\* The task gets a start date in the future: it is not started.
set_start_date(tid) == Exists(tid) /\ UpdateTask(tid, [tasks[tid] EXCEPT !.started = FALSE])

\* The task gets a pending subtask: it is not workable.
set_blocked(tid) == Exists(tid) /\ UpdateTask(tid, [tasks[tid] EXCEPT !.workable = FALSE])

----------------------------------------------------------------------------
\* The collaborators' read interface.

\* Requester.get_task: the task, or None.
get_task(tid) == tasks[tid]

\* task.has_tags(tag_list): the task carries at least one tag of the list.
has_tags(task, tag_list) == \E i \in 1..Len(tag_list) : InList(tag_list[i], task.tags)

\* task.has_tags(notag_only=True): the task carries no tag at all.
has_no_tag(task) == task.tags = <<>>

\* task.has_parents(): the task has at least one parent.
has_parents(task) == task.parents # {}

\* task.has_parents(tag=tags): some parent of the task carries a tag of the list.
has_parents_tag(task, tag_list) ==
    \E p \in task.parents : get_task(p) # None /\ has_tags(get_task(p), tag_list)

\* tagstore.get_all_tags(attname="nonworkview", attvalue="True"): a new list
\* of the flagged tags, in the tag store's order.
get_all_tags_nonworkview == SelectSeq(tagstore, LAMBDA tag : tag \in nonwork)

----------------------------------------------------------------------------
\* The tags argument of the selectors: None, or a list of tags.
NoneArg == [none |-> TRUE, val |-> <<>>]

ListArg(l) == [none |-> FALSE, val |-> l]

\* Python truth value of the tags argument: None and [] are false.
Truthy(tags) == ~tags.none /\ tags.val # <<>>

\* Requester.get_tasks_list, one candidate at a time.  Each stage takes the
\* local variable `task` (a task or None) and returns its next value.

\* if task and not task.is_loaded(): task = None
LoadedStage_NoCheck(task) == task

LoadedStage(task) ==
    IF task # None /\ ~task.loaded THEN None ELSE task

\* if task and not task.get_status() in status: task = None
StatusStage_NoCheck(task, status) == task

StatusStage(task, status) ==
    IF task # None /\ task.status \notin status THEN None ELSE task

\* for p in task.get_parents(): pp = self.get_task(p);
\*     if pp.get_status() != "Note": task = None
\* The loop does not stop at the first parent that is not a Note, and
\* pp.get_status() raises when the parent does not resolve.
ParentsLoop_AnyNote(task, ps) ==
    IF \E p \in ps : get_task(p) # None /\ get_task(p).status = "Note" THEN task ELSE None

RECURSIVE ParentsLoop(_, _)

ParentsLoop(task, ps) ==
    IF ps = {} THEN task
    ELSE LET p == CHOOSE q \in ps : TRUE
             pp == get_task(p)
         IN IF pp = None THEN Raised
            ELSE ParentsLoop(IF pp.status # "Note" THEN None ELSE task, ps \ {p})

\* if task and tags: ... elif task and is_root: ...
TagRootStage(task, tags, is_root) ==
    IF task # None /\ Truthy(tags)
    THEN IF ~has_tags(task, tags.val) THEN None
         ELSE IF is_root /\ has_parents_tag(task, tags.val) THEN None
         ELSE task
    ELSE IF task # None /\ is_root
    THEN IF has_parents(task) THEN ParentsLoop(task, task.parents) ELSE task
    ELSE task

\* if task and notag_only: if not task.has_tags(notag_only=notag_only): task = None
NotagStage(task, notag_only) ==
    IF task # None /\ notag_only /\ ~has_no_tag(task) THEN None ELSE task

\* if task and started_only: if not task.is_started(): task = None
StartedStage_NoCheck(task, started_only) == task

StartedStage(task, started_only) ==
    IF task # None /\ started_only /\ ~task.started THEN None ELSE task

\* The value of `task` at the end of the loop body for candidate tid, or
\* Raised when the body raises.
Candidate(tid, tags, status, notag_only, started_only, is_root) ==
    LET t3 == TagRootStage(StatusStage(LoadedStage(get_task(tid)), status), tags, is_root)
    IN IF t3 = Raised THEN Raised
       ELSE StartedStage(NotagStage(t3, notag_only), started_only)

\* for tid in self.ds.all_tasks(): ...; if task: l_tasks.append(tid)
RECURSIVE TasksLoop(_, _, _, _, _, _, _)
TasksLoop(ids, l_tasks, tags, status, notag_only, started_only, is_root) ==
    IF ids = <<>> THEN Returned(l_tasks)
    ELSE LET task == Candidate(Head(ids), tags, status, notag_only, started_only, is_root)
         IN IF task = Raised THEN Raised
            ELSE TasksLoop(Tail(ids),
                           IF task # None THEN Append(l_tasks, Head(ids)) ELSE l_tasks,
                           tags, status, notag_only, started_only, is_root)

get_tasks_list(tags, status, notag_only, started_only, is_root) ==
    TasksLoop(all_tasks, <<>>, tags, status, notag_only, started_only, is_root)

\* Requester.get_active_tasks_list with workable=False.
ActiveList(tags, notag_only, started_only, is_root) ==
    get_tasks_list(tags, {"Active"}, notag_only, started_only, is_root)

\* for nwtag in nonwork_tag: if tags and nwtag in tags: nonwork_tag.remove(nwtag)
\* The list is changed while it is iterated: i is the iterator's position.
RECURSIVE SkipLoop(_, _, _)
SkipLoop(nonwork_tag, i, tags) ==
    IF i > Len(nonwork_tag) THEN nonwork_tag
    ELSE LET nwtag == nonwork_tag[i]
         IN IF Truthy(tags) /\ InList(nwtag, tags.val)
            THEN SkipLoop(ListRemove(nonwork_tag, nwtag), i + 1, tags)
            ELSE SkipLoop(nonwork_tag, i + 1, tags)

\* The list of tags the workable view skips.
SkipTags(tags) == SkipLoop(get_all_tags_nonworkview, 1, tags)

\* temp_tasks = self.get_active_tasks_list(tags=tags, notag_only=notag_only,
\*     started_only=True, is_root=False, workable=False)
WorkableBase_PassThrough(tags, notag_only, started_only, is_root) ==
    ActiveList(tags, notag_only, started_only, is_root)

WorkableBase_NoTags(tags, notag_only, started_only, is_root) ==
    ActiveList(NoneArg, notag_only, TRUE, FALSE)

WorkableBase(tags, notag_only, started_only, is_root) ==
    ActiveList(tags, notag_only, TRUE, FALSE)

\* if t and t.is_workable(): if len(nonwork_tag) == 0: append
\*                           elif not t.has_tags(nonwork_tag): append
WorkableKeep(tid, nonwork_tag) ==
    LET t == get_task(tid)
    IN /\ t # None
       /\ t.workable
       /\ \/ Len(nonwork_tag) = 0
          \/ ~has_tags(t, nonwork_tag)

get_active_tasks_list(tags, notag_only, started_only, is_root, workable) ==
    IF workable
    THEN LET nonwork_tag == SkipTags(tags)
             temp_tasks == WorkableBase(tags, notag_only, started_only, is_root)
         IN IF temp_tasks = Raised THEN Raised
            ELSE Returned(SelectSeq(temp_tasks.list,
                                    LAMBDA tid : WorkableKeep(tid, nonwork_tag)))
    ELSE ActiveList(tags, notag_only, started_only, is_root)

get_closed_tasks_list(tags, notag_only, started_only, is_root) ==
    get_tasks_list(tags, {"Done", "Dismiss", "Deleted"}, notag_only, started_only, is_root)

get_notes_list(tags, notag_only) ==
    get_tasks_list(tags, {"Note"}, notag_only, FALSE, FALSE)

\* Requester.get_used_tags
RECURSIVE UsedTagsLoop(_, _)
UsedTagsLoop(ids, l) ==
    IF ids = <<>> THEN l
    ELSE LET t == get_task(Head(ids))
         IN UsedTagsLoop(Tail(ids), IF t # None THEN AddAll(l, t.tags) ELSE l)

get_used_tags_LoadedOnly ==
    UsedTagsLoop(SelectSeq(all_tasks, LAMBDA tid : get_task(tid) # None => get_task(tid).loaded), <<>>)

get_used_tags == UsedTagsLoop(all_tasks, <<>>)

\* The defaults of the selectors' keyword arguments.
active_default == get_active_tasks_list(NoneArg, FALSE, TRUE, FALSE, FALSE)

closed_default == get_closed_tasks_list(NoneArg, FALSE, FALSE, FALSE)

notes_default == get_notes_list(NoneArg, FALSE)


Next ==
    \/ \E tl \in ListsOver(Range(tagstore)), nt \in BOOLEAN : new_task(tl, nt)
    \/ \E tid \in TIDs : delete_task(tid)
    \/ \E tid \in TIDs : purge_task(tid)
    \/ \E tag \in Tags : new_tag(tag)
    \/ \E tag \in Tags : set_nonworkview(tag)
    \/ \E tid \in TIDs, s \in Statuses : set_status(tid, s)
    \/ \E tid \in TIDs, tag \in Tags : add_tag(tid, tag)
    \/ \E tid \in TIDs, ps \in SUBSET TIDs : add_parents(tid, ps)
    \/ \E tid \in TIDs : set_loaded(tid)
    \/ \E tid \in TIDs : set_start_date(tid)
    \/ \E tid \in TIDs : set_blocked(tid)

Spec == Init /\ [][Next]_vars

----------------------------------------------------------------------------
\* Requester instances calling the selectors.

\* A selector call: the selector and its arguments.
Call(op, tags, is_root, workable) ==
    [op |-> op, tags |-> tags, is_root |-> is_root, workable |-> workable]

\* The calls made: each selector, without a tag constraint or with the tags
\* of the tag store as the constraint, the other options at their defaults.
Calls ==
    {Call("get_active_tasks_list", tags, r, w) :
         tags \in {NoneArg, ListArg(tagstore)}, r \in BOOLEAN, w \in BOOLEAN}
    \cup {Call("get_closed_tasks_list", tags, r, FALSE) :
         tags \in {NoneArg, ListArg(tagstore)}, r \in BOOLEAN}
    \cup {Call("get_notes_list", tags, FALSE, FALSE) : tags \in {NoneArg, ListArg(tagstore)}}
    \cup {Call("get_tasks_list", NoneArg, FALSE, FALSE),
          Call("get_used_tags", NoneArg, FALSE, FALSE)}

\* What the selector returns when called on the instance self: the
\* selectors read the datastore through self.ds and nothing else of self.
Answer(self, call) ==
    CASE call.op = "get_tasks_list" ->
             get_tasks_list(call.tags, {"Active"}, FALSE, TRUE, FALSE)
      [] call.op = "get_active_tasks_list" ->
             get_active_tasks_list(call.tags, FALSE, TRUE, call.is_root, call.workable)
      [] call.op = "get_closed_tasks_list" ->
             get_closed_tasks_list(call.tags, FALSE, FALSE, call.is_root)
      [] call.op = "get_notes_list" -> get_notes_list(call.tags, FALSE)
      [] call.op = "get_used_tags" -> Returned(get_used_tags)

\* A second Requester is constructed on the same datastore.
Construct(r) ==
    /\ reqs[r] = None
    /\ \A q \in 1..(r - 1) : reqs[q] # None
    /\ reqs' = [reqs EXCEPT ![r] = Requester__init__(DS)]
    /\ UNCHANGED <<tasks, all_tasks, tagstore, nonwork, steps, last>>

\* A Requester that keeps the result of its last call and serves it again.
Query_Memo(r, call) ==
    /\ reqs[r] # None
    /\ LET hit == "memo" \in DOMAIN reqs[r] /\ reqs[r].memo.call = call
           out == IF hit THEN reqs[r].memo.out ELSE Answer(reqs[r], call)
       IN /\ last' = [req |-> r, call |-> call, out |-> out]
          /\ reqs' = [reqs EXCEPT ![r] =
                         [ds |-> reqs[r].ds, memo |-> [call |-> call, out |-> out]]]
    /\ UNCHANGED <<tasks, all_tasks, tagstore, nonwork, steps>>

\* The Requester r runs a selector: nothing is assigned to self or to the
\* datastore.
Query(r, call) ==
    /\ reqs[r] # None
    /\ last' = [req |-> r, call |-> call, out |-> Answer(reqs[r], call)]
    /\ UNCHANGED <<tasks, all_tasks, tagstore, nonwork, steps, reqs>>

Mutate == steps < MaxViewSteps /\ Next

NextView ==
    \/ Mutate
    \/ \E r \in Requesters : Construct(r)
    \/ \E r \in Requesters, call \in Calls : Query(r, call)

SpecView == Init /\ [][NextView]_vars

----------------------------------------------------------------------------
\* The arguments the selectors are called with.

TagArgs == {NoneArg} \cup {ListArg(l) : l \in ListsOver(Range(tagstore))}

EmptyTagArgs == {NoneArg, ListArg(<<>>)}

StatusArgs == {{"Active"}, {"Done", "Dismiss", "Deleted"}, {"Note"}, Statuses}

\* The identifiers a call returned (none when it raised).
Ids(res) == IF res = Raised THEN {} ELSE Range(res.list)

NoDuplicates(l) == \A i, j \in 1..Len(l) : i # j => l[i] # l[j]

Unloaded == {tid \in TIDs : tasks[tid] # None /\ ~tasks[tid].loaded}

\* C1: no selector returns the identifier of a task whose loaded flag is
\* false, whatever the arguments.
C1_UnloadedNeverReturned ==
    \A tags \in TagArgs, notag_only, started_only, is_root \in BOOLEAN :
        /\ \A status \in StatusArgs :
              Ids(get_tasks_list(tags, status, notag_only, started_only, is_root))
                  \cap Unloaded = {}
        /\ \A workable \in BOOLEAN :
              Ids(get_active_tasks_list(tags, notag_only, started_only, is_root, workable))
                  \cap Unloaded = {}
        /\ Ids(get_closed_tasks_list(tags, notag_only, started_only, is_root))
               \cap Unloaded = {}
        /\ Ids(get_notes_list(tags, notag_only)) \cap Unloaded = {}

\* An unloaded task that is Active, started and workable sits in the store
\* next to a loaded one that the default active list returns.
C1_Witness ==
    /\ \E tid \in Unloaded \cap Range(all_tasks) :
          /\ tasks[tid].status = "Active"
          /\ tasks[tid].started
          /\ tasks[tid].workable
    /\ active_default # Raised
    /\ Len(active_default.list) > 0

\* C2 as stated: the workable active list is a subset of the non-workable
\* active list called with the same tags, notag_only, started_only and
\* is_root, is_root=True included.
C2_WorkableSubsetSameArgs ==
    \A tags \in TagArgs, notag_only, started_only, is_root \in BOOLEAN :
        LET w == get_active_tasks_list(tags, notag_only, started_only, is_root, TRUE)
            f == get_active_tasks_list(tags, notag_only, started_only, is_root, FALSE)
        IN (w # Raised /\ f # Raised) => Range(w.list) \subseteq Range(f.list)

\* C2 amended: with is_root=False, the workable active list is a subset of
\* the non-workable active list called with the same tags, notag_only and
\* started_only (True or False), and neither call raises.
C2_WorkableSubsetFlat ==
    \A tags \in TagArgs, notag_only, started_only \in BOOLEAN :
        LET w == get_active_tasks_list(tags, notag_only, started_only, FALSE, TRUE)
            f == get_active_tasks_list(tags, notag_only, started_only, FALSE, FALSE)
        IN /\ w # Raised
           /\ f # Raised
           /\ Range(w.list) \subseteq Range(f.list)

\* With a tag constraint and started_only=False, the workable list is not
\* empty and the non-workable list holds a task the workable list leaves out.
C2_Witness ==
    \E tags \in TagArgs :
        LET w == get_active_tasks_list(tags, FALSE, FALSE, FALSE, TRUE)
            f == get_active_tasks_list(tags, FALSE, FALSE, FALSE, FALSE)
        IN /\ Truthy(tags)
           /\ w # Raised /\ f # Raised
           /\ Len(w.list) > 0
           /\ Range(f.list) \ Range(w.list) # {}

\* C3: with a non-empty tag constraint, every flagged tag of the constraint
\* is taken out of the list of skipped tags, and a loaded, Active, started,
\* workable task that matches the constraint and whose nonwork tags all
\* belong to it is returned by the workable active list.
C3_TagOverride ==
    \A tags \in TagArgs :
        Truthy(tags) =>
            /\ \A nwtag \in Range(get_all_tags_nonworkview) :
                  InList(nwtag, tags.val) => ~InList(nwtag, SkipTags(tags))
            /\ \A tid \in Range(all_tasks) :
                  LET t == tasks[tid]
                  IN (/\ t # None
                      /\ t.loaded /\ t.status = "Active" /\ t.started /\ t.workable
                      /\ \E tag \in Range(t.tags) : InList(tag, tags.val)
                      /\ \A tag \in Range(t.tags) : tag \in nonwork => InList(tag, tags.val))
                     => tid \in Ids(get_active_tasks_list(tags, FALSE, TRUE, FALSE, TRUE))

\* C5: the identifiers returned by the active, closed and notes selectors
\* resolve to tasks whose status is Active, closed (Done, Dismiss, Deleted)
\* and Note respectively, and the three results never share an identifier,
\* whatever the arguments of each call.
ActiveIds ==
    UNION {Ids(get_active_tasks_list(tags, n, s, r, w)) :
               tags \in TagArgs, n \in BOOLEAN, s \in BOOLEAN, r \in BOOLEAN, w \in BOOLEAN}

ClosedIds ==
    UNION {Ids(get_closed_tasks_list(tags, n, s, r)) :
               tags \in TagArgs, n \in BOOLEAN, s \in BOOLEAN, r \in BOOLEAN}

NotesIds ==
    UNION {Ids(get_notes_list(tags, n)) : tags \in TagArgs, n \in BOOLEAN}

HasStatus(tid, status) == tasks[tid] # None /\ tasks[tid].status \in status

C5_DisjointByStatus ==
    LET active == ActiveIds
        closed == ClosedIds
        notes == NotesIds
    IN /\ \A tid \in active : HasStatus(tid, {"Active"})
       /\ \A tid \in closed : HasStatus(tid, {"Done", "Dismiss", "Deleted"})
       /\ \A tid \in notes : HasStatus(tid, {"Note"})
       /\ active \cap closed = {}
       /\ active \cap notes = {}
       /\ closed \cap notes = {}

\* Each of the three selectors returns something.
C5_Witness ==
    /\ ActiveIds # {}
    /\ ClosedIds # {}
    /\ NotesIds # {}

\* C6: get_used_tags holds a tag exactly when a task that all_tasks resolves
\* carries it (whatever its status and loaded flag), holds no tag twice, and
\* lists the tags in the order the iteration first meets them.
Carriers(tag) ==
    {i \in 1..Len(all_tasks) :
        tasks[all_tasks[i]] # None /\ InList(tag, tasks[all_tasks[i]].tags)}

Min(S) == CHOOSE x \in S : \A y \in S : x <= y

\* The place where the iteration first meets the tag: the position of its
\* first carrier, then its position in that carrier's tags.
FirstSeen(tag) ==
    LET i == Min(Carriers(tag))
        ts == tasks[all_tasks[i]].tags
    IN i * (MaxTags + 1) + Min({j \in 1..Len(ts) : ts[j] = tag})

AllParentsNotes(t) ==
    \A p \in t.parents : tasks[p] # None /\ tasks[p].status = "Note"

C7_RootCheck ==
    \A tags \in EmptyTagArgs, status \in StatusArgs, tid \in Range(all_tasks) :
        LET t == tasks[tid]
            res == get_tasks_list(tags, status, FALSE, FALSE, TRUE)
        IN (t # None /\ t.loaded /\ t.status \in status) =>
              LET kept == TagRootStage(t, tags, TRUE) = t
              IN /\ t.parents = {} => kept
                 /\ kept <=> AllParentsNotes(t)
                 /\ ((\A p \in t.parents : tasks[p] # None) /\ ~AllParentsNotes(t))
                       => TagRootStage(t, tags, TRUE) = None
                 /\ res # Raised => (tid \in Range(res.list) <=> kept)

\* A loaded Active task has several parents, one a Note and one not, and the
\* root-only list is returned without it.
C7_Witness ==
    \E tid \in Range(all_tasks) :
        LET t == tasks[tid]
            res == get_tasks_list(NoneArg, {"Active"}, FALSE, FALSE, TRUE)
        IN /\ t # None /\ t.loaded /\ t.status = "Active"
           /\ Cardinality(t.parents) >= 2
           /\ \E p \in t.parents : tasks[p] # None /\ tasks[p].status = "Note"
           /\ \E p \in t.parents : tasks[p] # None /\ tasks[p].status # "Note"
           /\ res # Raised
           /\ tid \notin Range(res.list)

\* C8: with the other options at their defaults, the active selector
\* returns exactly the loaded Active started tasks, with started_only=False
\* exactly the loaded Active tasks, and the closed and notes selectors
\* exactly the loaded closed and Note tasks, started or not.
Matching(status, started) ==
    {tid \in Range(all_tasks) :
        /\ tasks[tid] # None
        /\ tasks[tid].loaded
        /\ tasks[tid].status \in status
        /\ started => tasks[tid].started}

Exactly(res, ids) == res # Raised /\ NoDuplicates(res.list) /\ Range(res.list) = ids

C8_Defaults ==
    /\ Exactly(active_default, Matching({"Active"}, TRUE))
    /\ Exactly(get_active_tasks_list(NoneArg, FALSE, FALSE, FALSE, FALSE),
               Matching({"Active"}, FALSE))
    /\ Exactly(closed_default, Matching({"Done", "Dismiss", "Deleted"}, FALSE))
    /\ Exactly(notes_default, Matching({"Note"}, FALSE))

\* A loaded Active task that is not started, which only started_only=False
\* returns, and an unstarted closed or Note task that its selector returns.
C8_Witness ==
    /\ Ids(get_active_tasks_list(NoneArg, FALSE, FALSE, FALSE, FALSE))
           \ Ids(active_default) # {}
    /\ \E tid \in Ids(closed_default) \cup Ids(notes_default) : ~tasks[tid].started

\* C9: no selector fails because a task lookup returns nothing, be the
\* identifier one of all_tasks or a parent link seen by the root check.
C9_NeverRaises ==
    \A tags \in TagArgs, notag_only, started_only, is_root \in BOOLEAN :
        /\ \A status \in StatusArgs :
              get_tasks_list(tags, status, notag_only, started_only, is_root) # Raised
        /\ \A workable \in BOOLEAN :
              get_active_tasks_list(tags, notag_only, started_only, is_root, workable) # Raised
        /\ get_closed_tasks_list(tags, notag_only, started_only, is_root) # Raised
        /\ get_notes_list(tags, notag_only) # Raised

\* C10: the workable active list is the same for the four combinations of
\* started_only and is_root: the started, not root-restricted active list,
\* in its order, without the tasks that are not workable or carry a skipped
\* tag.
C10_WorkableForcesStartedFlat ==
    \A tags \in TagArgs, notag_only \in BOOLEAN :
        LET base == get_active_tasks_list(tags, notag_only, TRUE, FALSE, FALSE)
            skip == Range(SkipTags(tags))
            expected == SelectSeq(base.list, LAMBDA tid :
                            /\ tasks[tid].workable
                            /\ \A tag \in skip : ~InList(tag, tasks[tid].tags))
        IN /\ base # Raised
           /\ \A started_only, is_root \in BOOLEAN :
                 get_active_tasks_list(tags, notag_only, started_only, is_root, TRUE)
                     = Returned(expected)

\* The store holds an unstarted Active task and an Active task under a
\* parent that is no Note, and the workable list with started_only=False
\* and is_root=True is returned and is not empty.
C10_Witness ==
    /\ \E tid \in Range(all_tasks) :
          tasks[tid] # None /\ tasks[tid].loaded /\ tasks[tid].status = "Active"
              /\ ~tasks[tid].started
    /\ \E tid \in Range(all_tasks) :
          tasks[tid] # None /\ tasks[tid].loaded /\ tasks[tid].status = "Active"
              /\ tasks[tid].parents # {} /\ ~AllParentsNotes(tasks[tid])
    /\ get_active_tasks_list(NoneArg, FALSE, FALSE, TRUE, TRUE) # Raised
    /\ Len(get_active_tasks_list(NoneArg, FALSE, FALSE, TRUE, TRUE).list) > 0

====
